---- MODULE Spec2Model ----
(***************************************************************************)
(* alisp: the s-expression parser (src/ast.rs) and the symbol environment  *)
(* with its evaluator (src/main.rs).                                       *)
(*                                                                         *)
(* Text is a sequence of characters, each character a one-element string.  *)
(* A Result is a record: kind "ok" (with val), kind "err" (with msg and    *)
(* the offending fragment or name) or kind "panic" (the call unwound; the  *)
(* process is gone).                                                       *)
(***************************************************************************)
EXTENDS Integers, Sequences, FiniteSets, TLC

VARIABLES src, shape, mappings, seen, op, ret

vars == <<src, shape, mappings, seen, op, ret>>

(***************************************************************************)
(* Results                                                                 *)
(***************************************************************************)
Ok(v) == [kind |-> "ok", val |-> v]

Err(m, what) == [kind |-> "err", msg |-> m, what |-> what]

Panic(m) == [kind |-> "panic", msg |-> m]

NoRet == [kind |-> "none"]

Unit == [t |-> "Unit"]

(***************************************************************************)
(* enum Val, enum Expr                                                     *)
(***************************************************************************)
IntVal(n) == [t |-> "Int", n |-> n]

Float(ip, fp) == [t |-> "Float", ip |-> ip, fp |-> fp]

Str(s) == [t |-> "Str", s |-> s]

Sym(name) == [e |-> "Sym", name |-> name]

Atom(v) == [e |-> "Atom", val |-> v]

Func(name, args) == [e |-> "Func", name |-> name, args |-> args]

(***************************************************************************)
(* i64: five limbs in base 10^4, most significant first, so that the       *)
(* 64-bit range is kept exactly.  I64_MAX is 9223372036854775807.          *)
(***************************************************************************)
I64_MAX == <<922, 3372, 368, 5477, 5807>>

I64Of(k) == <<0, 0, 0, 0, k>>

(***************************************************************************)
(* Characters and text                                                     *)
(***************************************************************************)
DigitSeq == <<"0", "1", "2", "3", "4", "5", "6", "7", "8", "9">>

Digits == {DigitSeq[i] : i \in 1..10}

NonZeroDigits == Digits \ {"0"}

DigitVal(c) == (CHOOSE i \in 1..10 : DigitSeq[i] = c) - 1

Letters ==
    {"a", "b", "c", "d", "e", "f", "g", "h", "i", "j", "k", "l", "m",
     "n", "o", "p", "q", "r", "s", "t", "u", "v", "w", "x", "y", "z",
     "A", "B", "C", "D", "E", "F", "G", "H", "I", "J", "K", "L", "M",
     "N", "O", "P", "Q", "R", "S", "T", "U", "V", "W", "X", "Y", "Z"}

NameStart == Letters \cup {"_"}

NameChar == NameStart \cup Digits

\* \s of the regex crate and char::is_whitespace of str::trim (White_Space).
WhiteSpace == {" ", "\t", "\n", "\r"}

\* A character whose UTF-8 encoding takes two bytes (U+00E9).
EAcute == "U+00E9"

Utf8Len(c) == IF c = EAcute THEN 2 ELSE 1

\* str::len: the length in bytes.
RECURSIVE ByteLen(_)
ByteLen(s) == IF s = <<>> THEN 0 ELSE Utf8Len(Head(s)) + ByteLen(Tail(s))

AllIn(s, S) == \A i \in 1..Len(s) : s[i] \in S

\* The regex '.' matches every character but the line feed.
NoLineFeed(s) == \A i \in 1..Len(s) : s[i] # "\n"

Contains(s, c) == \E i \in 1..Len(s) : s[i] = c

Min(a, b) == IF a < b THEN a ELSE b

FirstIndex(s, c) == CHOOSE i \in 1..Len(s) : s[i] = c /\ \A j \in 1..(i - 1) : s[j] # c

LastIndex(s, c) == CHOOSE i \in 1..Len(s) : s[i] = c /\ \A j \in (i + 1)..Len(s) : s[j] # c

\* str::split_once / str::rsplit_once: None when the delimiter is absent.
split_once(s, c) ==
    IF Contains(s, c)
    THEN [some |-> TRUE, l |-> SubSeq(s, 1, FirstIndex(s, c) - 1),
          r |-> SubSeq(s, FirstIndex(s, c) + 1, Len(s))]
    ELSE [some |-> FALSE, l |-> <<>>, r |-> <<>>]

rsplit_once(s, c) ==
    IF Contains(s, c)
    THEN [some |-> TRUE, l |-> SubSeq(s, 1, LastIndex(s, c) - 1),
          r |-> SubSeq(s, LastIndex(s, c) + 1, Len(s))]
    ELSE [some |-> FALSE, l |-> <<>>, r |-> <<>>]

\* str::split(" "): the pieces between single spaces, empty pieces included.
RECURSIVE split(_, _)
split(s, c) ==
    IF Contains(s, c)
    THEN <<SubSeq(s, 1, FirstIndex(s, c) - 1)>>
            \o split(SubSeq(s, FirstIndex(s, c) + 1, Len(s)), c)
    ELSE <<s>>

RECURSIVE trim_start(_)
trim_start(s) ==
    IF s # <<>> /\ Head(s) \in WhiteSpace THEN trim_start(Tail(s)) ELSE s

RECURSIVE trim_end(_)
trim_end(s) ==
    IF s # <<>> /\ s[Len(s)] \in WhiteSpace
    THEN trim_end(SubSeq(s, 1, Len(s) - 1))
    ELSE s

trim(s) == trim_end(trim_start(s))

NonEmpty(s) == s # <<>>

RECURSIVE Trimmed(_)
Trimmed(ss) == IF ss = <<>> THEN <<>> ELSE <<trim(Head(ss))>> \o Trimmed(Tail(ss))

\* .split(" ").filter(|s| !s.is_empty()).map(str::trim)
split_args(s) == Trimmed(SelectSeq(split(s, " "), NonEmpty))

(***************************************************************************)
(* mod regexes                                                             *)
(***************************************************************************)
\* ([1-9]+||0): a run of nonzero digits, nothing, or a single 0.
IntHead(p) == (p # <<>> /\ AllIn(p, NonZeroDigits)) \/ p = <<>> \/ p = <<"0">>

\* INT: ^([1-9]+||0)[0-9]*$
INT(s) ==
    \E i \in 0..Len(s) :
        IntHead(SubSeq(s, 1, i)) /\ AllIn(SubSeq(s, i + 1, Len(s)), Digits)

\* FLOAT: ^([1-9]+||0)[0-9]*\.[0-9]+$
FLOAT(s) ==
    \E d \in 1..(Len(s) - 1) :
        /\ s[d] = "."
        /\ INT(SubSeq(s, 1, d - 1))
        /\ AllIn(SubSeq(s, d + 1, Len(s)), Digits)

\* STR: ^".*"$
STR(s) ==
    /\ Len(s) >= 2
    /\ s[1] = "\""
    /\ s[Len(s)] = "\""
    /\ NoLineFeed(SubSeq(s, 2, Len(s) - 1))

\* LIST: ^'\(.+\)$
LIST(s) ==
    /\ Len(s) >= 4
    /\ s[1] = "'"
    /\ s[2] = "("
    /\ s[Len(s)] = ")"
    /\ NoLineFeed(SubSeq(s, 3, Len(s) - 1))

\* SYM: ^[a-zA-Z_]+[0-9a-zA-Z_]*$
SYM(s) == s # <<>> /\ s[1] \in NameStart /\ AllIn(s, NameChar)

\* The first index at or after i whose character is outside S (Len(s) + 1 if none).
RECURSIVE SkipWhile(_, _, _)
SkipWhile(s, i, S) ==
    IF i <= Len(s) /\ s[i] \in S THEN SkipWhile(s, i + 1, S) ELSE i

\* FUNC: ^\(\s*(?P<funcname>[a-zA-Z_]+[0-9a-zA-Z_]*)\s*(?P<args>.*)\)$
\* Every repetition is greedy: the name is the longest run of name
\* characters, the white space after it is consumed whole, and args is the
\* rest up to the closing parenthesis that ends the text.
FUNC(s) ==
    LET n  == Len(s)
        i  == SkipWhile(s, 2, WhiteSpace)
        j  == SkipWhile(s, i, NameChar)
        k  == SkipWhile(s, j, WhiteSpace)
    IN IF /\ n >= 3
          /\ s[1] = "("
          /\ s[n] = ")"
          /\ i < n
          /\ s[i] \in NameStart
          /\ NoLineFeed(SubSeq(s, k, n - 1))
       THEN [is_match |-> TRUE, funcname |-> SubSeq(s, i, j - 1), args |-> SubSeq(s, k, n - 1)]
       ELSE [is_match |-> FALSE, funcname |-> <<>>, args |-> <<>>]

(***************************************************************************)
(* i64::from_str and f64::from_str                                         *)
(***************************************************************************)
LimbBase == 10000

\* a <= b for two limb sequences of the same length.
RECURSIVE LimbLeq(_, _)
LimbLeq(a, b) ==
    IF a = <<>> THEN TRUE
    ELSE IF Head(a) # Head(b) THEN Head(a) < Head(b)
    ELSE LimbLeq(Tail(a), Tail(b))

\* l * m + d without the range check (the top limb may exceed its base).
MulAddRaw(l, m, d) ==
    LET r5 == l[5] * m + d
        r4 == l[4] * m + (r5 \div LimbBase)
        r3 == l[3] * m + (r4 \div LimbBase)
        r2 == l[2] * m + (r3 \div LimbBase)
        r1 == l[1] * m + (r2 \div LimbBase)
    IN <<r1, r2 % LimbBase, r3 % LimbBase, r4 % LimbBase, r5 % LimbBase>>

\* The range check with the limit itself taken for an overflow.
CheckedExclusive(l) ==
    IF LimbLeq(l, I64_MAX) /\ l # I64_MAX
    THEN [some |-> TRUE, v |-> l]
    ELSE [some |-> FALSE, v |-> l]

Checked(l) == IF LimbLeq(l, I64_MAX) THEN [some |-> TRUE, v |-> l] ELSE [some |-> FALSE, v |-> l]

checked_mul(l, m) == Checked(MulAddRaw(l, m, 0))

checked_add(l, d) == Checked(MulAddRaw(l, 1, d))

\* The digit loop of i64::from_str: result = result.checked_mul(10)?
\* .checked_add(digit)?, an overflow being Err(PosOverflow).
RECURSIVE from_digits(_, _)
from_digits(s, acc) ==
    IF s = <<>> THEN [some |-> TRUE, v |-> acc]
    ELSE LET m == checked_mul(acc, 10)
         IN IF ~m.some THEN m
            ELSE LET a == checked_add(m.v, DigitVal(Head(s)))
                 IN IF ~a.some THEN a ELSE from_digits(Tail(s), a.v)

\* i64::from_str on a text INT matched (digits only): an empty text is
\* Err(Empty), an overflow Err(PosOverflow).
i64_from_str(s) ==
    IF s = <<>> THEN Err("ParseIntError", s)
    ELSE LET r == from_digits(s, I64Of(0))
         IN IF r.some THEN Ok(r.v) ELSE Err("ParseIntError", s)

RECURSIVE StripZerosStart(_)
StripZerosStart(s) ==
    IF s # <<>> /\ Head(s) = "0" THEN StripZerosStart(Tail(s)) ELSE s

RECURSIVE StripZerosEnd(_)
StripZerosEnd(s) ==
    IF s # <<>> /\ s[Len(s)] = "0" THEN StripZerosEnd(SubSeq(s, 1, Len(s) - 1)) ELSE s

\* f64::from_str on a text FLOAT matched.  The value is kept as its decimal
\* expansion without leading and trailing zeros, which identifies the f64 for
\* literals of fewer than 16 significant digits.
f64_from_str(s) ==
    LET d == FirstIndex(s, ".")
    IN Ok(Float(StripZerosStart(SubSeq(s, 1, d - 1)), StripZerosEnd(SubSeq(s, d + 1, Len(s)))))

(***************************************************************************)
(* try_parse_atom, try_parse_expr                                          *)
(***************************************************************************)
\* src.chars().skip(1).take(src.len() - 2): take counts bytes of src.
str_body(s) == SubSeq(s, 2, Min(Len(s), 1 + (ByteLen(s) - 2)))

try_parse_atom(s) ==
    IF INT(s) THEN
        LET r == i64_from_str(s)
        IN IF r.kind = "ok" THEN Ok(IntVal(r.val)) ELSE r
    ELSE IF FLOAT(s) THEN f64_from_str(s)
    ELSE IF STR(s) THEN Ok(Str(str_body(s)))
    ELSE IF LIST(s) THEN Panic("not yet implemented")
    ELSE Err("malformed value", s)

\* The decomposition with the argument text split at its last '('.
arg_fragmentsLastOpen(s, args) ==
    IF Contains(Tail(s), "(")
    THEN LET first == rsplit_once(args, "(")
             last  == rsplit_once(first.r, ")")
         IN IF ~first.some \/ ~last.some
            THEN Panic("called Option::unwrap() on a None value")
            ELSE Ok(split_args(first.l) \o <<<<"(">> \o last.l \o <<")">>>>
                        \o split_args(last.r))
    ELSE Ok(split_args(args))

\* The decomposition with the nested call parsed from the whole fragment.
arg_fragmentsWhole(s, args) ==
    IF Contains(Tail(s), "(")
    THEN LET first == split_once(args, "(")
             last  == rsplit_once(first.r, ")")
         IN IF ~first.some \/ ~last.some
            THEN Panic("called Option::unwrap() on a None value")
            ELSE Ok(split_args(first.l) \o <<s>> \o split_args(last.r))
    ELSE Ok(split_args(args))

\* The argument fragments try_parse_expr recurses on, in order; the unwrap
\* of rsplit_once panics when no ')' follows the first '('.
arg_fragments(s, args) ==
    IF Contains(Tail(s), "(")
    THEN LET first == split_once(args, "(")
             last  == rsplit_once(first.r, ")")
         IN IF ~first.some \/ ~last.some
            THEN Panic("called Option::unwrap() on a None value")
            ELSE Ok(split_args(first.l) \o <<<<"(">> \o last.l \o <<")">>>>
                        \o split_args(last.r))
    ELSE Ok(split_args(args))

RECURSIVE try_parse_expr(_), parse_args(_, _)
\* for arg in ... { args.push(try_parse_expr(arg)?); }
parse_args(frags, args) ==
    IF frags = <<>> THEN Ok(args)
    ELSE LET r == try_parse_expr(Head(frags))
         IN IF r.kind # "ok" THEN r
            ELSE parse_args(Tail(frags), Append(args, r.val))

try_parse_expr(s) ==
    IF SYM(s) THEN Ok(Sym(s))
    ELSE IF FUNC(s).is_match THEN
        LET mat   == FUNC(s)
            frags == arg_fragments(s, mat.args)
        IN IF frags.kind # "ok" THEN frags
           ELSE LET r == parse_args(frags.val, <<>>)
                IN IF r.kind = "ok" THEN Ok(Func(mat.funcname, r.val)) ELSE r
    ELSE LET a == try_parse_atom(s)
         IN IF a.kind = "ok" THEN Ok(Atom(a.val)) ELSE a

(***************************************************************************)
(* struct System { mappings: HashMap<String, Val> }                        *)
(***************************************************************************)
Names == {<<"x">>, <<"y">>}

\* Float(<<>>, <<>>) is 0.0.
Vals == {IntVal(I64Of(1)), IntVal(I64Of(2)), Str(<<"h", "i">>), Float(<<>>, <<>>)}

EvalExprs ==
    {Atom(v) : v \in Vals} \cup {Sym(n) : n \in Names}
        \cup {Func(n, a) : n \in Names, a \in {<<>>, <<Atom(IntVal(I64Of(1)))>>, <<Sym(<<"x">>)>>}}

new == << >>

\* A lookup that answers an unbound name with a default value.
getDefault(m, sym) ==
    IF sym \in DOMAIN m THEN Ok(m[sym]) ELSE Ok(IntVal(I64Of(0)))

\* System::get: a clone of the bound value, or the undefined-name error.
get(m, sym) ==
    IF sym \in DOMAIN m
    THEN Ok(m[sym])
    ELSE Err("name is undefined", sym)

\* HashMap::insert in place of try_insert: the binding is replaced.
setOverwrite(m, sym, val) ==
    [map |-> [k \in DOMAIN m \cup {sym} |-> IF k = sym THEN val ELSE m[k]],
     ret |-> Ok(Unit)]

\* System::set: HashMap::try_insert leaves the map alone when the key is occupied.
set(m, sym, val) ==
    IF sym \in DOMAIN m
    THEN [map |-> m, ret |-> Err("cannot reassign name", sym)]
    ELSE [map |-> [k \in DOMAIN m \cup {sym} |-> IF k = sym THEN val ELSE m[k]],
          ret |-> Ok(Unit)]

\* An Atom arm that answers only with values the environment holds.
evalAtomViaEnv(m, expr) ==
    IF expr.e = "Atom" THEN (IF expr.val \in {m[k] : k \in DOMAIN m}
                             THEN Ok(expr.val) ELSE Err("name is undefined", <<>>))
    ELSE IF expr.e = "Sym" THEN get(m, expr.name)
    ELSE Panic("not yet implemented")

\* System::eval: the third arm is todo!(), which panics.
eval(m, expr) ==
    IF expr.e = "Atom" THEN Ok(expr.val)
    ELSE IF expr.e = "Sym" THEN get(m, expr.name)
    ELSE Panic("not yet implemented")

Alive == ret.kind # "panic"

Set(sym, val) ==
    /\ Alive
    /\ LET r == set(mappings, sym, val)
       IN /\ mappings' = r.map
          /\ ret' = r.ret
    /\ op' = [name |-> "set", sym |-> sym, val |-> val]
    /\ UNCHANGED <<src, shape, seen>>

Get(sym) ==
    /\ Alive
    /\ ret' = get(mappings, sym)
    /\ op' = [name |-> "get", sym |-> sym]
    /\ UNCHANGED <<src, shape, mappings, seen>>

Eval(expr) ==
    /\ Alive
    /\ ret' = eval(mappings, expr)
    /\ op' = [name |-> "eval", expr |-> expr]
    /\ seen' = IF expr.e = "Sym" /\ ret'.kind = "ok"
               THEN [k \in DOMAIN seen \cup {expr.name} |->
                        IF k # expr.name THEN seen[k]
                        ELSE IF k \in DOMAIN seen
                             THEN [val |-> seen[k].val, twice |-> TRUE]
                             ELSE [val |-> ret'.val, twice |-> FALSE]]
               ELSE seen
    /\ UNCHANGED <<src, shape, mappings>>

Init ==
    /\ src = <<>>
    /\ shape = <<>>
    /\ mappings = new
    /\ seen = << >>
    /\ op = [name |-> "new"]
    /\ ret = NoRet

Next ==
    \/ \E sym \in Names, val \in Vals : Set(sym, val)
    \/ \E sym \in Names : Get(sym)
    \/ \E expr \in EvalExprs : Eval(expr)

Spec == Init /\ [][Next]_vars

(***************************************************************************)
(* The parser as a state machine: src is the fragment handed to the        *)
(* parser, shape the call form src was written from (empty for the other   *)
(* fragments), op and ret the last call and what it returned.              *)
(***************************************************************************)
MaxRaw == 4

MaxBody == 3

MaxDigits == 3

MaxDepth == 2

RawChars == {"(", ")", " ", "a", "1", "\"", "'"}

BodyChars == {"a", "\"", "\\", "(", EAcute}

SmallDigits == {"0", "1", "9"}

RECURSIVE TextsUpTo(_, _)
TextsUpTo(chars, n) ==
    IF n = 0 THEN {<<>>}
    ELSE LET shorter == TextsUpTo(chars, n - 1)
         IN shorter \cup {Append(t, c) : t \in {u \in shorter : Len(u) = n - 1}, c \in chars}

RawInputs == TextsUpTo(RawChars, MaxRaw)

StrInputs == {<<"\"">> \o b \o <<"\"">> : b \in TextsUpTo(BodyChars, MaxBody)}

\* The first 18 digits of i64::MAX, and of 2^64.
MaxPrefix == <<"9", "2", "2", "3", "3", "7", "2", "0", "3", "6", "8", "5", "4", "7", "7", "5", "8", "0">>

WrapPrefix == <<"1", "8", "4", "4", "6", "7", "4", "4", "0", "7", "3", "7", "0", "9", "5", "5", "1", "6">>

DigitInputs ==
    TextsUpTo(SmallDigits, MaxDigits)
        \cup {z \o MaxPrefix \o <<d>> \o e :
                z \in {<<>>, <<"0">>, <<"0", "0">>}, d \in Digits, e \in {<<>>, <<"0">>}}
        \cup {WrapPrefix \o <<"1">> \o <<d>> : d \in Digits}

\* Call fragments with a line feed: as white space around the name, and
\* inside the argument text.
LineFeedInputs ==
    {<<"(", "\n", "f", "\n", "a", ")">>, <<"(", "f", " ", "a", "\n", "b", ")">>,
     <<"(", "f", "\n", "(", "g", " ", "a", ")", " ", ")">>}

\* Argument tokens written before and after the nested call; an empty token
\* stands for a doubled space.
BeforeArgs == {<<>>, <<<<"a">>, <<>>, <<"1", ".", "5">>>>, <<<<"\"", "(", ")", "\"">>>>}

AfterArgs == {<<>>, <<<<"1", "2">>, <<"b">>>>, <<<<"1", "x">>>>, <<<<"b", "\t">>>>}

CallName(d) == IF d % 2 = 0 THEN <<"f">> ELSE <<"g", "_", "1">>

Call(name, before, nested, after) ==
    [name |-> name, before |-> before, nested |-> nested, after |-> after]

Sibling == Call(<<"h">>, <<>>, <<>>, <<>>)

RECURSIVE CallShapes(_)
CallShapes(d) ==
    LET leaves == {Call(CallName(d), b, <<>>, <<>>) : b \in BeforeArgs}
    IN IF d = 0 THEN leaves
       ELSE leaves \cup
            {Call(CallName(d), b, n, a) :
                b \in BeforeArgs, a \in AfterArgs, n \in {<<c>> : c \in CallShapes(d - 1)}}
            \cup
            {Call(CallName(d), b, <<c, Sibling>>, <<>>) :
                b \in BeforeArgs, c \in CallShapes(d - 1)}

RECURSIVE Spaced(_)
Spaced(ts) == IF ts = <<>> THEN <<>> ELSE <<" ">> \o Head(ts) \o Spaced(Tail(ts))

RECURSIVE Render(_), RenderAll(_)
RenderAll(ns) ==
    IF ns = <<>> THEN <<>> ELSE <<" ">> \o Render(Head(ns)) \o RenderAll(Tail(ns))

Render(sh) ==
    <<"(">> \o sh.name \o Spaced(sh.before) \o RenderAll(sh.nested)
        \o Spaced(sh.after) \o <<")">>

ParseAtom ==
    /\ Alive
    /\ ret' = try_parse_atom(src)
    /\ op' = [name |-> "try_parse_atom"]
    /\ UNCHANGED <<src, shape, mappings, seen>>

ParseExpr ==
    /\ Alive
    /\ ret' = try_parse_expr(src)
    /\ op' = [name |-> "try_parse_expr"]
    /\ UNCHANGED <<src, shape, mappings, seen>>

InitParse ==
    /\ \/ src \in RawInputs \cup StrInputs \cup DigitInputs \cup LineFeedInputs /\ shape = <<>>
       \/ \E sh \in CallShapes(MaxDepth) : src = Render(sh) /\ shape = <<sh>>
    /\ mappings = new
    /\ seen = << >>
    /\ op = [name |-> "new"]
    /\ ret = NoRet

NextParse == ParseAtom \/ ParseExpr

SpecParse == InitParse /\ [][NextParse]_vars

(***************************************************************************)
(* Environment and evaluator properties                                    *)
(***************************************************************************)
BoundIn(m, n) == n \in DOMAIN m

\* C1: set on a bound name returns the redefinition error naming the symbol
\* and leaves every binding as it was; set on an unbound name succeeds and
\* adds exactly that one binding.
C1_Step ==
    op'.name = "set" =>
        IF BoundIn(mappings, op'.sym)
        THEN /\ ret' = Err("cannot reassign name", op'.sym)
             /\ mappings' = mappings
        ELSE /\ ret' = Ok(Unit)
             /\ DOMAIN mappings' = DOMAIN mappings \cup {op'.sym}
             /\ mappings'[op'.sym] = op'.val
             /\ \A k \in DOMAIN mappings : mappings'[k] = mappings[k]

C1_BindOnce == [][C1_Step]_vars

C1_Witness ==
    /\ op.name = "set"
    /\ ret.kind = "err"
    /\ BoundIn(mappings, op.sym)
    /\ mappings[op.sym] # op.val
    /\ Cardinality(DOMAIN mappings) = 2

\* C2: a bound name never becomes unbound and never changes its value, over
\* any sequence of set, get and eval; and every successful evaluation of a
\* Symbol returns the value its first successful evaluation returned (seen
\* keeps, per name, that first value and whether it was evaluated again).
C2_Step ==
    /\ \A n \in DOMAIN mappings : BoundIn(mappings', n) /\ mappings'[n] = mappings[n]
    /\ (op'.name = "eval" /\ op'.expr.e = "Sym" /\ ret'.kind = "ok"
            /\ op'.expr.name \in DOMAIN seen)
        => ret'.val = seen[op'.expr.name].val

C2_WriteOnce == [][C2_Step]_vars

C2_Witness ==
    /\ op.name = "eval"
    /\ op.expr.e = "Sym"
    /\ ret.kind = "ok"
    /\ Cardinality(DOMAIN mappings) = 2
    /\ op.expr.name \in DOMAIN seen
    /\ seen[op.expr.name].twice
    /\ seen[op.expr.name].val = ret.val

\* C4: eval of a Call returns an error result to the caller (it does not
\* unwind) and leaves the environment unchanged.
C4_Step ==
    (op'.name = "eval" /\ op'.expr.e = "Func")
        => ret'.kind = "err" /\ mappings' = mappings

C4_CallNotSupported == [][C4_Step]_vars

\* C8: eval of Symbol(s) gives the outcome of get(s): the bound value when s
\* is bound, the undefined-name error naming s when it is not; the
\* environment is unchanged either way.
C8_Step ==
    (op'.name = "get" \/ (op'.name = "eval" /\ op'.expr.e = "Sym")) =>
        LET s == IF op'.name = "get" THEN op'.sym ELSE op'.expr.name
        IN /\ ret' = IF BoundIn(mappings, s)
                     THEN Ok(mappings[s])
                     ELSE Err("name is undefined", s)
           /\ mappings' = mappings

C8_EvalSymIsLookup == [][C8_Step]_vars

C8_Witness ==
    /\ op.name = "eval"
    /\ op.expr.e = "Sym"
    /\ ret.kind = "err"
    /\ ret.what = op.expr.name
    /\ mappings # new

\* C9: eval of Atom(v) returns v whatever the environment holds, never
\* fails, and leaves the environment unchanged.
C9_Step ==
    (op'.name = "eval" /\ op'.expr.e = "Atom")
        => ret' = Ok(op'.expr.val) /\ mappings' = mappings

C9_EvalAtom == [][C9_Step]_vars

C9_Witness ==
    /\ op.name = "eval"
    /\ op.expr.e = "Atom"
    /\ ret = Ok(op.expr.val)
    /\ \E k \in DOMAIN mappings : mappings[k] # op.expr.val
    /\ \A k \in DOMAIN mappings : mappings[k] # op.expr.val

(***************************************************************************)
(* Parser properties                                                       *)
(***************************************************************************)
Parsed == op.name \in {"try_parse_atom", "try_parse_expr"}

RECURSIVE HasSiblingCalls(_)
HasSiblingCalls(sh) ==
    Len(sh.nested) >= 2 \/ \E i \in 1..Len(sh.nested) : HasSiblingCalls(sh.nested[i])

\* C3: every call of try_parse_expr and try_parse_atom returns a value or a
\* parse error and never aborts; a list-literal fragment, a call fragment
\* with a '(' that no ')' follows before the closing one, and a call with
\* two sibling nested calls yield a parse error.
C3_ParseNeverAborts ==
    Parsed =>
        /\ ret.kind \in {"ok", "err"}
        /\ LIST(src) => ret.kind = "err"
        /\ (op.name = "try_parse_expr" /\ FUNC(src).is_match
                /\ Contains(FUNC(src).args, "(")
                /\ ~Contains(split_once(FUNC(src).args, "(").r, ")"))
            => ret.kind = "err"
        /\ (op.name = "try_parse_expr" /\ shape # <<>> /\ HasSiblingCalls(shape[1]))
            => ret.kind = "err"

\* C5: a fragment that begins and ends with a double quote parses to the
\* String of exactly the characters strictly between its first and its last
\* character.
C5_StrVerbatim ==
    (op.name = "try_parse_atom" /\ Len(src) >= 2 /\ src[1] = "\"" /\ src[Len(src)] = "\"")
        => ret = Ok(Str(SubSeq(src, 2, Len(src) - 1)))

\* The decimal digits of a limb sequence, without leading zeros.
LimbDigits(k) ==
    <<DigitSeq[((k \div 1000) % 10) + 1], DigitSeq[((k \div 100) % 10) + 1],
      DigitSeq[((k \div 10) % 10) + 1], DigitSeq[(k % 10) + 1]>>

RECURSIVE AllLimbDigits(_)
AllLimbDigits(l) ==
    IF l = <<>> THEN <<>> ELSE LimbDigits(Head(l)) \o AllLimbDigits(Tail(l))

Canonical(d) == IF StripZerosStart(d) = <<>> THEN <<"0">> ELSE StripZerosStart(d)

ToDecimal(l) == Canonical(AllLimbDigits(l))

\* a <= b for two digit texts of the same length.
RECURSIVE DigitsLeq(_, _)
DigitsLeq(a, b) ==
    IF a = <<>> THEN TRUE
    ELSE IF Head(a) # Head(b) THEN DigitVal(Head(a)) < DigitVal(Head(b))
    ELSE DigitsLeq(Tail(a), Tail(b))

MaxDecimal == MaxPrefix \o <<"7">>

FitsI64(d) ==
    \/ Len(Canonical(d)) < Len(MaxDecimal)
    \/ Len(Canonical(d)) = Len(MaxDecimal) /\ DigitsLeq(Canonical(d), MaxDecimal)

\* C6: a nonempty text of decimal digits parses to the Integer of its
\* base-10 value when that value is at most 2^63 - 1, and to a parse error
\* when it is not.
C6_DecimalToI64 ==
    (op.name = "try_parse_atom" /\ src # <<>> /\ AllIn(src, Digits)) =>
        IF FitsI64(src)
        THEN /\ ret.kind = "ok"
             /\ ret.val.t = "Int"
             /\ Len(ret.val.n) = Len(I64_MAX)
             /\ \A i \in 1..Len(ret.val.n) : ret.val.n[i] \in 0..(LimbBase - 1)
             /\ ToDecimal(ret.val.n) = Canonical(src)
        ELSE ret.kind = "err"

C6_Witness ==
    /\ op.name = "try_parse_atom"
    /\ src = <<"0">> \o MaxDecimal
    /\ ret = Ok(IntVal(I64_MAX))

\* The overflow case of C6 is reached as well.
C6_WitnessOverflow ==
    /\ op.name = "try_parse_atom"
    /\ src = MaxPrefix \o <<"8">>
    /\ ret.kind = "err"

\* The call forms C7 speaks of: at most one nested call per call, at every
\* depth, the tokens free of white space.
RECURSIVE SingleNested(_)
SingleNested(sh) ==
    /\ Len(sh.nested) <= 1
    /\ \A i \in 1..Len(sh.nested) : SingleNested(sh.nested[i])
    /\ \A i \in 1..Len(sh.before) : ~\E j \in 1..Len(sh.before[i]) : sh.before[i][j] \in WhiteSpace
    /\ \A i \in 1..Len(sh.after) : ~\E j \in 1..Len(sh.after[i]) : sh.after[i][j] \in WhiteSpace

Parens == {"(", ")"}

RECURSIVE NoParenTokens(_)
NoParenTokens(sh) ==
    /\ \A i \in 1..Len(sh.before) : ~\E j \in 1..Len(sh.before[i]) : sh.before[i][j] \in Parens
    /\ \A i \in 1..Len(sh.after) : ~\E j \in 1..Len(sh.after[i]) : sh.after[i][j] \in Parens
    /\ \A i \in 1..Len(sh.nested) : NoParenTokens(sh.nested[i])

\* The result C7 states for a call form: the parses of the nonempty tokens
\* before, the nested call, the parses of the nonempty tokens after; a
\* failure when any of these fails.
RECURSIVE C7_Expected(_), C7_ExpectedAll(_)
C7_ExpectedAll(ns) ==
    IF ns = <<>> THEN <<>> ELSE <<C7_Expected(Head(ns))>> \o C7_ExpectedAll(Tail(ns))

C7_Expected(sh) ==
    LET tokens(ts) == SelectSeq(ts, NonEmpty)
        parses(ts) == [i \in 1..Len(tokens(ts)) |-> try_parse_expr(tokens(ts)[i])]
        items == parses(sh.before) \o C7_ExpectedAll(sh.nested) \o parses(sh.after)
    IN IF \E i \in 1..Len(items) : items[i].kind # "ok"
       THEN [kind |-> "err"]
       ELSE Ok(Func(sh.name, [i \in 1..Len(items) |-> items[i].val]))

C7_Agrees(sh) ==
    IF C7_Expected(sh).kind = "ok" THEN ret = C7_Expected(sh) ELSE ret.kind = "err"

\* C7 as stated: for a call form with space-separated tokens and at most one
\* nested call per call, try_parse_expr returns Call(name, parses of the
\* tokens before, the nested Call, parses of the tokens after), and fails
\* when an argument fails.
C7_SingleNesting ==
    (op.name = "try_parse_expr" /\ shape # <<>> /\ SingleNested(shape[1]))
        => C7_Agrees(shape[1])

\* C7 amended: the same, for call forms none of whose tokens holds a
\* parenthesis.
C7_SingleNestingNoParenTokens ==
    (op.name = "try_parse_expr" /\ shape # <<>> /\ SingleNested(shape[1])
            /\ NoParenTokens(shape[1]))
        => C7_Agrees(shape[1])

C7_Witness ==
    /\ op.name = "try_parse_expr"
    /\ shape # <<>>
    /\ SingleNested(shape[1])
    /\ NoParenTokens(shape[1])
    /\ ret.kind = "ok"
    /\ Len(ret.val.args) = 5
    /\ ret.val.args[3].e = "Func"
    /\ Len(ret.val.args[3].args) = 5
    /\ ret.val.args[3].args[3].e = "Func"

\* The failing-argument case of C7 is reached as well.
C7_WitnessFails ==
    /\ op.name = "try_parse_expr"
    /\ shape # <<>>
    /\ SingleNested(shape[1])
    /\ NoParenTokens(shape[1])
    /\ Len(shape[1].nested) = 1
    /\ ret.kind = "err"

\* The fragments one call of try_parse_expr on s recurses on.
SubFragments(s) ==
    LET mat == FUNC(s)
    IN IF ~SYM(s) /\ mat.is_match /\ arg_fragments(s, mat.args).kind = "ok"
       THEN arg_fragments(s, mat.args).val
       ELSE <<>>

RECURSIVE Descends(_)
Descends(s) ==
    LET frags == SubFragments(s)
    IN \A i \in 1..Len(frags) :
        /\ Len(frags[i]) < Len(s)
        /\ ByteLen(frags[i]) < ByteLen(s)
        /\ Descends(frags[i])

\* C10: every recursive call of try_parse_expr, at every depth, is made on a
\* fragment strictly shorter than the fragment of the call that makes it, so
\* the parse of src returns.
C10_Descends == Descends(src) /\ (op.name = "try_parse_expr" => ret.kind # "none")

RECURSIVE Depth(_)
Depth(e) ==
    IF e.e # "Func" THEN 0
    ELSE IF \E i \in 1..Len(e.args) : e.args[i].e = "Func"
         THEN 1 + Depth(e.args[CHOOSE i \in 1..Len(e.args) : e.args[i].e = "Func"])
         ELSE 1

C10_Witness ==
    /\ op.name = "try_parse_expr"
    /\ ret.kind = "ok"
    /\ Depth(ret.val) = 3
    /\ Len(SubFragments(src)) >= 3

====
